---- MODULE Spec2Model ----
(***************************************************************************)
(* Model of package rotatefile (src/go.go): a size-based rotating log      *)
(* file.  The sink (RotateFile) owns one handle to the file named Name,    *)
(* counts the bytes it believes the file holds (CapUsing) and, when a      *)
(* write does not fit in CapLimit - CapUsing, writes the head, closes the  *)
(* handle, shifts the numbered backups Name.1 .. Name.Backup, renames Name *)
(* to Name.1, reopens Name and writes the tail.                            *)
(*                                                                         *)
(* The file system is a map from names to files.  Name is index 0 and      *)
(* Name.i is index i.  A file is a record of an identity (its inode) and   *)
(* its bytes.  Each system call of write is one step, so that the states   *)
(* inside a rotation and the states left by a failed call are states of    *)
(* the model.  Any system call may fail (at most MaxFaults times).         *)
(***************************************************************************)
EXTENDS Integers, Sequences, FiniteSets, TLC

\* ------------------------------------------------------------------ bounds
MaxBackup == 2      \* Backup is drawn from 0..MaxBackup
MaxCap    == 2      \* CapLimit is drawn from 0..MaxCap
MaxInit   == 2      \* size of a file that exists before construction
MaxLen    == 3      \* length of one payload
MaxCalls  == 3      \* number of Write calls in one behaviour
MaxFaults == 1      \* number of system calls that fail in one behaviour

MaxIdx == MaxBackup + 1     \* names Name.1 .. Name.MaxIdx are observed

Idx == 0..MaxIdx

\* ------------------------------------------------------------------ state
VARIABLES
    Backup,     \* RotateFile.Backup
    CapLimit,   \* RotateFile.CapLimit
    CapUsing,   \* RotateFile.CapUsing
    File,       \* RotateFile.File: [open, id] the handle and the file it is on
    UpdateAt,   \* RotateFile.UpdateAt
    files,      \* the directory: files[0] is Name, files[i] is Name.i
    pc,         \* position: "new", "idle", inside write, or "dead"
    b,          \* write's argument
    capSpace,   \* write's local capSpace
    i,          \* write's loop variable
    n,          \* write's result n
    now,        \* the clock read by time.Now()
    nextId,     \* identity of the next file created
    mayFail,    \* whether system calls can fail in this behaviour
    faults,     \* system calls that have failed so far
    submitted,  \* history: bytes handed to Write so far
    files0,     \* history: the directory before construction
    hist,       \* history: one record per Write call
    ops,        \* history: close / remove / rename / reopen calls made by write
    rotated,    \* history: the files renamed from Name to Name.1, in order
    removed,    \* history: the files removed, in order
    atClose     \* history: the directory when the current rotation began

vars == <<Backup, CapLimit, CapUsing, File, UpdateAt, files, pc, b, capSpace, i, n,
          now, nextId, mayFail, faults, submitted, files0, hist, ops, rotated, removed, atClose>>

config == <<Backup, CapLimit, files0, mayFail>>

\* ------------------------------------------------------------- file system
NoFile == [id |-> 0, data |-> <<>>]

NoHandle == [open |-> FALSE, id |-> 0]

\* isFileExist(name): os.Stat succeeds.
isFileExist(fs, k) == fs[k].id # 0

\* The slice ends one byte early.
Take_Short(s, k) == SubSeq(s, 1, k - 1)

\* line 57: b[:capSpace]
Take(s, k) == SubSeq(s, 1, k)

\* The tail starts one byte too late.
Drop_Late(s, k) == SubSeq(s, k + 2, Len(s))

\* line 112: b[capSpace:]
Drop(s, k) == SubSeq(s, k + 1, Len(s))

\* Bytes that exist before construction are negative, distinct per file.
InitData(k, size) == [j \in 1..size |-> -(10 * k + j)]

\* The payload of the next Write: the next len bytes of the submitted stream.
Payload(from, len) == [j \in 1..len |-> from + j]

\* The bytes land at the start of the file, not at its end.
FileWrite_Front(fs, h, chunk, k) ==
    [x \in Idx |-> IF fs[x].id # 0 /\ fs[x].id = h.id
                   THEN [fs[x] EXCEPT !.data = Take(chunk, k) \o @]
                   ELSE fs[x]]

\* os.File.Write on handle h of the first k bytes of chunk: the bytes land at
\* the end (O_APPEND) of the file the handle is on, whatever its name is now.
FileWrite(fs, h, chunk, k) ==
    [x \in Idx |-> IF fs[x].id # 0 /\ fs[x].id = h.id
                   THEN [fs[x] EXCEPT !.data = @ \o Take(chunk, k)]
                   ELSE fs[x]]

\* os.Remove(Name.k)
Remove(fs, k) == [fs EXCEPT ![k] = NoFile]

\* os.Rename(Name.s, Name.d): d now names the file, s names nothing.
Rename(fs, s, d) == [fs EXCEPT ![d] = fs[s], ![s] = NoFile]

CanFail == mayFail /\ faults < MaxFaults

\* ------------------------------------------------------------------- Init
\* Before construction: any Backup and CapLimit, Name absent or of any size
\* up to MaxInit, any set of backups present.
Start ==
    /\ Backup \in 0..MaxBackup
    /\ CapLimit \in 0..MaxCap
    /\ \E exist \in SUBSET (1..MaxIdx), s \in -1..MaxInit :
          files = [k \in Idx |->
                     IF k = 0
                     THEN IF s < 0 THEN NoFile
                          ELSE [id |-> 1, data |-> InitData(0, s)]
                     ELSE IF k \in exist
                          THEN [id |-> k + 1, data |-> InitData(k, 1)]
                          ELSE NoFile]
    /\ files0 = files
    /\ CapUsing = 0
    /\ File = NoHandle
    /\ UpdateAt = 0
    /\ pc = "new"
    /\ b = <<>>
    /\ capSpace = 0
    /\ i = 0
    /\ n = 0
    /\ now = 1
    /\ nextId = MaxIdx + 2
    /\ faults = 0
    /\ submitted = 0
    /\ hist = <<>>
    /\ ops = [close |-> 0, remove |-> 0, rename |-> 0, reopen |-> 0]
    /\ rotated = <<>>
    /\ removed = <<>>
    /\ atClose = files

\* System calls can fail.
Init == Start /\ mayFail = TRUE

\* System calls never fail.
InitReliable == Start /\ mayFail = FALSE

\* ------------------------------------------------------------- the handle
\* The open truncates a file that exists (O_TRUNC, as OpenWronlyTrunca does).
OpenCreateAppendFiles_Trunc(fs, id) ==
    [fs EXCEPT ![0] = [id |-> IF isFileExist(fs, 0) THEN fs[0].id ELSE id, data |-> <<>>]]

\* OpenWronlyCreateAppend: os.OpenFile(Name, O_WRONLY|O_CREATE|O_APPEND).
\* The directory after the call: Name is created empty when it is absent and
\* is left as it is (never truncated) when it exists.
OpenCreateAppendFiles(fs, id) ==
    IF isFileExist(fs, 0) THEN fs ELSE [fs EXCEPT ![0] = [id |-> id, data |-> <<>>]]

\* The reopen leaves f.File on the file it was on before.
OpenCreateAppendHandle_Stale(fs, id) ==
    [open |-> TRUE, id |-> IF File.id # 0 THEN File.id ELSE OpenCreateAppendFiles(fs, id)[0].id]

\* The handle OpenWronlyCreateAppend stores in f.File.
OpenCreateAppendHandle(fs, id) ==
    [open |-> TRUE, id |-> OpenCreateAppendFiles(fs, id)[0].id]

\* The outcomes of f.File.Write(chunk): [k, ok], k the bytes written.  A closed
\* handle writes nothing and fails; an open one writes all, or fails short.
WriteOutcomes(h, chunk) ==
    IF ~h.open
    THEN {[k |-> 0, ok |-> FALSE]}
    ELSE {[k |-> Len(chunk), ok |-> TRUE]} \cup
         (IF CanFail
          THEN {[k |-> j, ok |-> FALSE] : j \in 0..(IF Len(chunk) = 0 THEN 0 ELSE Len(chunk) - 1)}
          ELSE {})

\* A failure of a call on an open handle is an injected fault; a call on a
\* closed handle fails by itself.
Fault(h, ok) == IF ~ok /\ h.open THEN faults + 1 ELSE faults

\* ---------------------------------------------------------------- history
\* A call's record: its input length, CapUsing and UpdateAt at entry, the
\* renames of Name to Name.1 it has made, write's result (res, n) and what
\* the caller of the public Write sees (out).
Call(len) == [len |-> len, used |-> CapUsing, upd |-> UpdateAt, rot |-> 0,
              res |-> "run", n |-> 0, out |-> "none"]

Begin(len) == Append(hist, Call(len))

\* The public Write returns (n, nil) whatever write returned.
Surface_Swallow(res) == "returned"

\* lines 120-123: the public Write hands write's result to doa.Try2, which
\* panics when err is not nil; otherwise Write returns (n, nil).  A panic
\* inside write passes through.
Surface(res) == IF res = "ok" THEN "returned" ELSE "panicked"

\* write returns (m, err), or panics, and the public Write surfaces it.
Return(h, m, res) ==
    [h EXCEPT ![Len(h)].res = res, ![Len(h)].n = m, ![Len(h)].out = Surface(res)]

CanCall == pc = "idle" /\ Len(hist) < MaxCalls

\* The outcomes of a system call that takes no handle: TRUE is success.
SysOutcomes == IF CanFail THEN {TRUE, FALSE} ELSE {TRUE}

\* ------------------------------------------------------------ construction
\* The size of a file that already exists is not recovered.
StatSize_Zero(f) == 0

\* line 147: the size Stat reports for the file the handle is on.
StatSize(f) == Len(f.data)

\* New: open Name with create+append, then CapUsing and UpdateAt from Stat.
\* A file that existed keeps its modification time 0; a file New creates has
\* the time of its creation.
New ==
    /\ pc = "new"
    /\ files' = OpenCreateAppendFiles(files, nextId)
    /\ File' = OpenCreateAppendHandle(files, nextId)
    /\ nextId' = IF isFileExist(files, 0) THEN nextId ELSE nextId + 1
    /\ CapUsing' = StatSize(files'[0])
    /\ UpdateAt' = IF isFileExist(files, 0) THEN 0 ELSE now
    /\ pc' = "idle"
    /\ atClose' = files'
    /\ UNCHANGED <<config, b, capSpace, i, n, now, faults, submitted, hist, ops,
                   rotated, removed>>

\* New returns an error: the open fails (nothing is created), or Stat fails
\* after the open.  No sink is usable afterwards.
NewFails ==
    /\ pc = "new"
    /\ CanFail
    /\ \E opened \in BOOLEAN :
          /\ files' = IF opened THEN OpenCreateAppendFiles(files, nextId) ELSE files
          /\ File' = IF opened THEN OpenCreateAppendHandle(files, nextId) ELSE File
          /\ nextId' = IF opened /\ ~isFileExist(files, 0) THEN nextId + 1 ELSE nextId
    /\ faults' = faults + 1
    /\ pc' = "dead"
    /\ atClose' = files'
    /\ UNCHANGED <<config, CapUsing, UpdateAt, b, capSpace, i, n, now, submitted,
                   hist, ops, rotated, removed>>

\* ------------------------------------------------------------------ write
\* A write that exactly fills the file is taken not to fit.
Fits_Strict(space, len) == space > len

\* line 50: the whole input fits in the free space.
Fits(space, len) == space >= len

\* line 57: b[:capSpace] is evaluated with capSpace < len(b); Go panics when
\* the bound is negative.
SliceInRange(space, len) == 0 <= space /\ space <= len

\* line 114: CapUsing after the tail is written.
TailUsing(using, writeN) == writeN

\* The shift loop starts one index too high.
ShiftFrom_High(backup) == backup

\* The shift loop starts one index too low.
ShiftFrom_Low(backup) == backup - 2

\* line 79: the first index of the shift loop.
ShiftFrom(backup) == backup - 1

\* line 78: backups are kept.
KeepsBackups(backup) == backup > 0

\* lines 49-55: the input fits; one File.Write, then return.
WriteFits(len) ==
    /\ CanCall
    /\ LET payload == Payload(submitted, len)
           space   == CapLimit - CapUsing
       IN  /\ Fits(space, len)
           /\ \E o \in WriteOutcomes(File, payload) :
                 /\ files' = FileWrite(files, File, payload, o.k)
                 /\ CapUsing' = CapUsing + o.k
                 /\ n' = o.k
                 /\ hist' = Return(Begin(len), o.k, IF o.ok THEN "ok" ELSE "err")
                 /\ faults' = Fault(File, o.ok)
           /\ b' = payload
           /\ capSpace' = space
    /\ now' = now + 1
    /\ UpdateAt' = now'
    /\ submitted' = submitted + len
    /\ pc' = "idle"
    /\ UNCHANGED <<config, File, i, nextId, ops, rotated, removed, atClose>>

\* lines 49-57: the input does not fit and capSpace is negative: b[:capSpace]
\* panics before anything is written or assigned.
WritePanics(len) ==
    /\ CanCall
    /\ LET space == CapLimit - CapUsing
       IN  /\ ~Fits(space, len)
           /\ ~SliceInRange(space, len)
           /\ capSpace' = space
    /\ b' = Payload(submitted, len)
    /\ n' = 0
    /\ hist' = Return(Begin(len), 0, "oob")
    /\ now' = now + 1
    /\ submitted' = submitted + len
    /\ pc' = "idle"
    /\ UNCHANGED <<config, CapUsing, File, UpdateAt, files, i, nextId, faults, ops,
                   rotated, removed, atClose>>

\* lines 49-63: the input does not fit; the first capSpace bytes are written
\* to the active file.
WriteHead(len) ==
    /\ CanCall
    /\ LET payload == Payload(submitted, len)
           space   == CapLimit - CapUsing
       IN  /\ ~Fits(space, len)
           /\ SliceInRange(space, len)
           /\ \E o \in WriteOutcomes(File, Take(payload, space)) :
                 /\ files' = FileWrite(files, File, Take(payload, space), o.k)
                 /\ CapUsing' = CapUsing + o.k
                 /\ n' = o.k
                 /\ hist' = IF o.ok THEN Begin(len) ELSE Return(Begin(len), o.k, "err")
                 /\ faults' = Fault(File, o.ok)
                 /\ pc' = IF o.ok THEN "close" ELSE "idle"
           /\ b' = payload
           /\ capSpace' = space
    /\ now' = now + 1
    /\ UpdateAt' = now'
    /\ submitted' = submitted + len
    /\ UNCHANGED <<config, File, i, nextId, ops, rotated, removed, atClose>>

\* Where the rotation goes after a step of the shift loop that leaves the
\* loop variable at k.
AfterShift(k) == IF k > 0 THEN "shift" ELSE "slide"

\* lines 65-68 and 78-79: close the active handle.  The handle is closed
\* whether or not Close reports an error.
CloseActive ==
    /\ pc = "close"
    /\ \E ok \in (IF File.open THEN SysOutcomes ELSE {FALSE}) :
          /\ faults' = Fault(File, ok)
          /\ hist' = IF ok THEN hist ELSE Return(hist, n, "err")
          /\ pc' = IF ~ok THEN "idle"
                   ELSE IF KeepsBackups(Backup) THEN AfterShift(ShiftFrom(Backup))
                   ELSE "reopen"
          /\ i' = IF ok /\ KeepsBackups(Backup) THEN ShiftFrom(Backup) ELSE i
    /\ File' = [File EXCEPT !.open = FALSE]
    /\ ops' = [ops EXCEPT !.close = @ + 1]
    /\ atClose' = files
    /\ UNCHANGED <<config, CapUsing, UpdateAt, files, b, capSpace, n, now, nextId,
                   submitted, rotated, removed>>

\* lines 79-82: Name.i does not exist; next i.
ShiftSkip ==
    /\ pc = "shift"
    /\ ~isFileExist(files, i)
    /\ i' = i - 1
    /\ pc' = AfterShift(i')
    /\ UNCHANGED <<config, CapUsing, File, UpdateAt, files, b, capSpace, n, now,
                   nextId, faults, submitted, hist, ops, rotated, removed, atClose>>

\* lines 82-88: Name.i and Name.(i+1) exist; remove Name.(i+1).
ShiftRemove ==
    /\ pc = "shift"
    /\ isFileExist(files, i)
    /\ isFileExist(files, i + 1)
    /\ ops' = [ops EXCEPT !.remove = @ + 1]
    /\ \E ok \in SysOutcomes :
          /\ files' = IF ok THEN Remove(files, i + 1) ELSE files
          /\ removed' = IF ok THEN Append(removed, files[i + 1]) ELSE removed
          /\ faults' = IF ok THEN faults ELSE faults + 1
          /\ hist' = IF ok THEN hist ELSE Return(hist, n, "err")
          /\ pc' = IF ok THEN "shift" ELSE "idle"
    /\ UNCHANGED <<config, CapUsing, File, UpdateAt, b, capSpace, i, n, now, nextId,
                   submitted, rotated, atClose>>

\* lines 89-93: Name.i exists and Name.(i+1) does not (it did not, or it has
\* just been removed); rename Name.i to Name.(i+1); next i.
ShiftRename ==
    /\ pc = "shift"
    /\ isFileExist(files, i)
    /\ ~isFileExist(files, i + 1)
    /\ ops' = [ops EXCEPT !.rename = @ + 1]
    /\ \E ok \in SysOutcomes :
          /\ files' = IF ok THEN Rename(files, i, i + 1) ELSE files
          /\ faults' = IF ok THEN faults ELSE faults + 1
          /\ hist' = IF ok THEN hist ELSE Return(hist, n, "err")
          /\ i' = IF ok THEN i - 1 ELSE i
          /\ pc' = IF ok THEN AfterShift(i') ELSE "idle"
    /\ UNCHANGED <<config, CapUsing, File, UpdateAt, b, capSpace, n, now, nextId,
                   submitted, rotated, removed, atClose>>

\* lines 95-101: Name.1 exists; remove it.
SlideRemove ==
    /\ pc = "slide"
    /\ isFileExist(files, 1)
    /\ ops' = [ops EXCEPT !.remove = @ + 1]
    /\ \E ok \in SysOutcomes :
          /\ files' = IF ok THEN Remove(files, 1) ELSE files
          /\ removed' = IF ok THEN Append(removed, files[1]) ELSE removed
          /\ faults' = IF ok THEN faults ELSE faults + 1
          /\ hist' = IF ok THEN hist ELSE Return(hist, n, "err")
          /\ pc' = IF ok THEN "slide" ELSE "idle"
    /\ UNCHANGED <<config, CapUsing, File, UpdateAt, b, capSpace, i, n, now, nextId,
                   submitted, rotated, atClose>>

\* lines 102-105: Name.1 does not exist; rename Name to Name.1.  The rename
\* fails by itself when Name does not exist.
SlideRename ==
    /\ pc = "slide"
    /\ ~isFileExist(files, 1)
    /\ ops' = [ops EXCEPT !.rename = @ + 1]
    /\ \E ok \in (IF isFileExist(files, 0) THEN SysOutcomes ELSE {FALSE}) :
          /\ files' = IF ok THEN Rename(files, 0, 1) ELSE files
          /\ rotated' = IF ok THEN Append(rotated, files[0]) ELSE rotated
          /\ faults' = IF ~ok /\ isFileExist(files, 0) THEN faults + 1 ELSE faults
          /\ hist' = IF ok THEN [hist EXCEPT ![Len(hist)].rot = @ + 1]
                     ELSE Return(hist, n, "err")
          /\ pc' = IF ok THEN "reopen" ELSE "idle"
    /\ UNCHANGED <<config, CapUsing, File, UpdateAt, b, capSpace, i, n, now, nextId,
                   submitted, removed, atClose>>

\* lines 108-111: reopen Name with create+append.
Reopen ==
    /\ pc = "reopen"
    /\ ops' = [ops EXCEPT !.reopen = @ + 1]
    /\ \E ok \in SysOutcomes :
          /\ files' = IF ok THEN OpenCreateAppendFiles(files, nextId) ELSE files
          /\ File' = IF ok THEN OpenCreateAppendHandle(files, nextId) ELSE File
          /\ nextId' = IF ok /\ ~isFileExist(files, 0) THEN nextId + 1 ELSE nextId
          /\ faults' = IF ok THEN faults ELSE faults + 1
          /\ hist' = IF ok THEN hist ELSE Return(hist, n, "err")
          /\ pc' = IF ok THEN "tail" ELSE "idle"
    /\ UNCHANGED <<config, CapUsing, UpdateAt, b, capSpace, i, n, now, submitted,
                   rotated, removed, atClose>>

\* lines 112-116: write the rest of the input to the reopened file; CapUsing
\* becomes the number of bytes of the tail that were written.
WriteTail ==
    /\ pc = "tail"
    /\ \E o \in WriteOutcomes(File, Drop(b, capSpace)) :
          /\ files' = FileWrite(files, File, Drop(b, capSpace), o.k)
          /\ n' = n + o.k
          /\ CapUsing' = TailUsing(CapUsing, o.k)
          /\ hist' = Return(hist, n', IF o.ok THEN "ok" ELSE "err")
          /\ faults' = Fault(File, o.ok)
    /\ UpdateAt' = now
    /\ pc' = "idle"
    /\ UNCHANGED <<config, File, b, capSpace, i, now, nextId, submitted, ops, rotated,
                   removed, atClose>>

\* lines 126-128: Close closes the handle (also when it reports an error).
Close ==
    /\ pc = "idle"
    /\ File.open
    /\ File' = [File EXCEPT !.open = FALSE]
    /\ \E ok \in SysOutcomes : faults' = IF ok THEN faults ELSE faults + 1
    /\ UNCHANGED <<config, CapUsing, UpdateAt, files, pc, b, capSpace, i, n, now,
                   nextId, submitted, hist, ops, rotated, removed, atClose>>

Next ==
    \/ New
    \/ NewFails
    \/ \E len \in 0..MaxLen : WriteFits(len)
    \/ \E len \in 0..MaxLen : WritePanics(len)
    \/ \E len \in 0..MaxLen : WriteHead(len)
    \/ CloseActive
    \/ ShiftSkip
    \/ ShiftRemove
    \/ ShiftRename
    \/ SlideRemove
    \/ SlideRename
    \/ Reopen
    \/ WriteTail
    \/ Close

Spec == Init /\ [][Next]_vars

\* The steps of a behaviour in which no system call fails: New returns a sink.
NextReliable ==
    \/ New
    \/ \E len \in 0..MaxLen : WriteFits(len)
    \/ \E len \in 0..MaxLen : WritePanics(len)
    \/ \E len \in 0..MaxLen : WriteHead(len)
    \/ CloseActive
    \/ ShiftSkip
    \/ ShiftRemove
    \/ ShiftRename
    \/ SlideRemove
    \/ SlideRename
    \/ Reopen
    \/ WriteTail
    \/ Close

\* The program on a file system whose calls all succeed.
SpecReliable == InitReliable /\ [][NextReliable]_vars

\* ------------------------------------------------------- state predicates
\* No system call has failed and no Write call has ended in an error or a
\* panic (a call still running has res = "run").
AllOk == faults = 0 /\ \A k \in 1..Len(hist) : hist[k].res \in {"ok", "run"}

\* The sink is constructed and no write is running.
Idle == pc = "idle"

\* Name was absent or empty before construction.
EmptyStart == files0[0].data = <<>>

\* The size of Name before construction (0 when absent).
S0 == Len(files0[0].data)

\* The indices of the backups that exist in directory fs.
Backups(fs) == {k \in 1..MaxIdx : isFileExist(fs, k)}

NoBackups0 == Backups(files0) = {}

NoExcess0 == \A k \in Backups(files0) : k <= Backup

NoOps == ops = [close |-> 0, remove |-> 0, rename |-> 0, reopen |-> 0]

BackupsUntouched == \A k \in 1..MaxIdx : files[k] = files0[k]

RECURSIVE CatFiles(_, _)
CatFiles(fs, k) == IF k < 0 THEN <<>> ELSE CatFiles(fs, k - 1) \o fs[k].data

RECURSIVE CatRecs(_)
CatRecs(s) == IF s = <<>> THEN <<>> ELSE Head(s).data \o CatRecs(Tail(s))

Range(s) == {s[k] : k \in 1..Len(s)}

Min(x, y) == IF x <= y THEN x ELSE y

\* ----------------------------------------------------------------- claims

\* C1: from an absent or empty Name with CapLimit > 0, as long as the bytes
\* submitted by successful writes sum to at most CapLimit, write never leaves
\* the fitting branch: no close, remove, rename or reopen has been made, no
\* backup has changed or appeared, and Name holds exactly the bytes written.
C1_NoRotationWithinCapacity ==
    (pc \notin {"new", "dead"} /\ AllOk /\ EmptyStart /\ CapLimit > 0
        /\ submitted <= CapLimit)
    => /\ pc = "idle"
       /\ NoOps
       /\ rotated = <<>>
       /\ BackupsUntouched
       /\ Len(files[0].data) = submitted
       /\ files[0].data = Payload(0, submitted)

C1_Witness ==
    /\ Idle /\ AllOk /\ EmptyStart
    /\ CapLimit = 2 /\ submitted = 2
    /\ Len(hist) = 2 /\ hist[1].len = 1 /\ hist[2].len = 1
    /\ Len(files[0].data) = 2

\* The number of capacity boundaries a write of len bytes crosses when the
\* active file holds used bytes: one for each further file that is needed.
Crossed(used, len) ==
    IF used + len <= CapLimit THEN 0
    ELSE ((used + len - CapLimit) + CapLimit - 1) \div CapLimit

\* C2: every successful Write call (CapLimit > 0, Backup > 0, entered with
\* CapUsing <= CapLimit) has performed exactly one rotation per capacity
\* boundary its payload crosses, so a payload spanning several files' worth
\* rotates several times within the call.
C2_OneRotationPerBoundary ==
    (CapLimit > 0 /\ Backup > 0)
    => \A k \in 1..Len(hist) :
          (hist[k].res = "ok" /\ hist[k].used <= CapLimit)
          => hist[k].rot = Crossed(hist[k].used, hist[k].len)

\* What the code does instead: a successful Write call rotates once when the
\* payload does not fit and not at all when it fits.
C2_OneRotationPerCall ==
    (CapLimit > 0 /\ Backup > 0)
    => \A k \in 1..Len(hist) :
          (hist[k].res = "ok" /\ hist[k].used <= CapLimit)
          => hist[k].rot = IF hist[k].used + hist[k].len <= CapLimit THEN 0 ELSE 1

\* C3: with Backup >= 1 and no backup before construction, after N rotations
\* (all calls successful, no write running) the backups that exist are exactly
\* Name.1 .. Name.min(N, Backup), and Name.j is the file rotated out j-1
\* rotations before the latest one, unchanged since.
C3_BackupChain ==
    (Idle /\ AllOk /\ Backup >= 1 /\ NoBackups0)
    => /\ Backups(files) = 1..Min(Len(rotated), Backup)
       /\ \A j \in 1..Min(Len(rotated), Backup) :
             files[j] = rotated[Len(rotated) - j + 1]

C3_Witness ==
    /\ Idle /\ AllOk /\ NoBackups0
    /\ Backup = 2
    /\ Len(rotated) = 3
    /\ files[1] = rotated[3] /\ files[2] = rotated[2]
    /\ rotated[1].data # <<>>

\* All of Name.1 .. Name.Backup exist in directory fs.
Full(fs) == \A k \in 1..Backup : isFileExist(fs, k)

\* C4: if no backup with index above Backup existed before construction, then
\* in every state, inside a rotation and after a failed one included, every
\* backup that exists has an index in 1..Backup (so there are at most Backup
\* of them); and a rotation that began with all of Name.1 .. Name.Backup
\* present has, once Name is renamed to Name.1, removed the file that was
\* Name.Backup: it has no name any more.
C4_AtMostBackupCount ==
    NoExcess0
    => /\ Backups(files) \subseteq 1..Backup
       /\ Cardinality(Backups(files)) <= Backup
       /\ (pc = "reopen" /\ Backup >= 1 /\ Full(atClose))
          => /\ \A k \in Idx : files[k].id # atClose[Backup].id
             /\ removed # <<>>
             /\ removed[Len(removed)] = atClose[Backup]

C4_Witness ==
    /\ NoExcess0
    /\ pc = "reopen"
    /\ Backup = 2
    /\ Full(atClose)
    /\ Len(rotated) = 3
    /\ removed # <<>>
    /\ removed[Len(removed)] = atClose[2]
    /\ Backups(files) = {1, 2}

\* C5: after construction and after every Write call that returns
\* successfully, for every Backup >= 0 and CapLimit >= 0, CapUsing is the
\* length of the file named Name.
C5_CapUsingIsFileSize ==
    (Idle /\ AllOk) => CapUsing = Len(files[0].data)

\* C6: after every Write call, with CapLimit > 0, Backup > 0 and Name no
\* larger than CapLimit before construction, CapUsing <= CapLimit.
C6_CapUsingWithinLimit ==
    (Idle /\ AllOk /\ CapLimit > 0 /\ Backup > 0 /\ S0 <= CapLimit)
    => CapUsing <= CapLimit

\* The bytes in Name and in every backup, then the bytes of the removed files.
KeptBytes == CatFiles(files, MaxIdx)

EvictedBytes == CatRecs(removed)

\* C7: from an absent or empty Name and no backups, after any sequence of
\* successful writes the bytes in Name and its backups number the bytes
\* submitted minus the bytes of the backups removed by rotation, and every
\* submitted byte is in exactly one place: in a file, or in a removed backup.
C7_BytesConserved ==
    (Idle /\ AllOk /\ EmptyStart /\ NoBackups0)
    => /\ Len(KeptBytes) = submitted - Len(EvictedBytes)
       /\ Range(KeptBytes \o EvictedBytes) = 1..submitted
       /\ Len(KeptBytes \o EvictedBytes) = submitted

C7_Witness ==
    /\ Idle /\ AllOk /\ EmptyStart /\ NoBackups0
    /\ Backup = 1
    /\ Len(EvictedBytes) >= 1
    /\ Len(KeptBytes) = submitted - Len(EvictedBytes)
    /\ Len(files[0].data) >= 1

\* The restart scenario: Name holds S0 <= CapLimit bytes before construction,
\* the first Write has CapLimit - S0 bytes and the second has one byte.
Restart1 ==
    /\ Idle /\ AllOk /\ S0 <= CapLimit
    /\ Len(hist) = 1 /\ hist[1].len = CapLimit - S0

Restart2 ==
    /\ Idle /\ AllOk /\ S0 <= CapLimit
    /\ Len(hist) = 2 /\ hist[1].len = CapLimit - S0 /\ hist[2].len = 1

\* After construction CapUsing is the size Name had; the first write of the
\* scenario fills Name without any rotation step.
RestartFills ==
    /\ (Idle /\ hist = <<>>) => CapUsing = S0
    /\ Restart1 => /\ NoOps /\ hist[1].rot = 0
                   /\ files[0].data = files0[0].data \o Payload(0, CapLimit - S0)
                   /\ Len(files[0].data) = CapLimit
                   /\ BackupsUntouched

\* The second write of the scenario rotates once: the full file is Name.1
\* and the byte is alone in a new file Name.
RestartRotates ==
    /\ hist[2].rot = 1
    /\ Len(rotated) = 1
    /\ files[1] = rotated[1]
    /\ files[1].data = files0[0].data \o Payload(0, CapLimit - S0)
    /\ Len(files[1].data) = CapLimit
    /\ files[0].data = <<submitted>>
    /\ files[0].id # files[1].id

\* C8 as stated: opening on a file of size S sets CapUsing = S (every S); when
\* S <= CapLimit a write of CapLimit - S bytes fills the file without
\* rotating, and one more byte triggers exactly one rotation that moves the
\* full file to Name.1 and puts the byte in a fresh Name.
C8_RestartRecovery ==
    /\ RestartFills
    /\ Restart2 => RestartRotates

\* C8 as amended: the same, the rotation on the extra byte for Backup >= 1.
C8_RestartRecoveryWithBackups ==
    /\ RestartFills
    /\ (Restart2 /\ Backup >= 1) => RestartRotates

C8_Witness ==
    /\ Restart2 /\ Backup >= 1
    /\ S0 = 1 /\ CapLimit = 2
    /\ RestartRotates

\* C9: with CapLimit = 0 no write performs a rollover (no close, remove,
\* rename or reopen is made, also when no system call fails) and every
\* successful write appends its whole payload to Name.
C9_ZeroCapacityNeverRotates ==
    (CapLimit = 0 /\ faults = 0)
    => /\ NoOps
       /\ (Idle /\ AllOk) => files[0].data = files0[0].data \o Payload(0, submitted)

\* With Backup = 0 nothing is renamed or removed, no backup changes, and the
\* bytes of the successful calls are appended to Name in order.
ZeroBackupAppends ==
    /\ ops.rename = 0 /\ ops.remove = 0
    /\ rotated = <<>> /\ removed = <<>>
    /\ BackupsUntouched
    /\ (Idle /\ AllOk) => files[0].data = files0[0].data \o Payload(0, submitted)

\* C10: with Backup = 0, for every CapLimit and every sequence of writes,
\* nothing is renamed or removed, no backup is created, the content of Name
\* is its initial content followed by all payloads, and every write succeeds
\* (when no system call fails and the caller has not closed the sink).
C10_ZeroBackupGrows ==
    Backup = 0
    => /\ ZeroBackupAppends
       /\ (Idle /\ faults = 0 /\ File.open)
          => \A k \in 1..Len(hist) : hist[k].res = "ok"

\* The last call's record.
Last == hist[Len(hist)]

\* C11: every Write call on an open sink in which no system call fails
\* returns to its caller, with a byte count equal to the length of its input,
\* whether or not it rotated.
C11_ReturnsInputLength ==
    (Idle /\ faults = 0 /\ File.open)
    => \A k \in 1..Len(hist) :
          /\ hist[k].res = "ok"
          /\ hist[k].out = "returned"
          /\ hist[k].n = hist[k].len

\* What holds of the code: a call that write completes without error has
\* returned the length of its input.
C11_ReturnsInputLengthWhenOk ==
    \A k \in 1..Len(hist) :
        hist[k].res = "ok" => (hist[k].n = hist[k].len /\ hist[k].out = "returned")

\* A system call made by write fails in this step.
FailStep == faults' = faults + 1 /\ hist' # hist

\* The bytes the step adds to the files.
Wrote == Len(CatFiles(files', MaxIdx)) - Len(CatFiles(files, MaxIdx))

IsPrefix(s, t) == Len(s) <= Len(t) /\ s = SubSeq(t, 1, Len(s))

\* The step that fails ends the call: write is left at once with an error and
\* the count of bytes written so far, no name changes and no byte written
\* before is lost, CapUsing counts the bytes the failing step wrote, and the
\* caller of Write gets a panic, not a result.
FailStepEndsCall ==
    FailStep
    => /\ pc' = "idle"
       /\ hist'[Len(hist')].res = "err"
       /\ hist'[Len(hist')].out = "panicked"
       /\ hist'[Len(hist')].n = (IF pc = "idle" THEN 0 ELSE n) + Wrote
       /\ \A x \in Idx : /\ files'[x].id = files[x].id
                         /\ IsPrefix(files[x].data, files'[x].data)
       /\ CapUsing' = (IF pc = "tail" THEN 0 ELSE CapUsing) + Wrote
       /\ rotated' = rotated
       /\ removed' = removed
       /\ File' = File \/ (pc = "close" /\ File' = [File EXCEPT !.open = FALSE])

\* No call whose write failed, or panicked, has returned a result to the
\* caller of Write.
FailureSurfaced ==
    \A k \in 1..Len(hist) :
        hist[k].res \in {"err", "oob"} => hist[k].out = "panicked"

\* C12: when a system call of write fails (head write, close, remove, rename,
\* reopen, tail write) no later step of write runs, the earlier steps are not
\* undone, CapUsing keeps the bytes counted up to there, and the public Write
\* never reports success for a call whose write failed.
C12_FailureAbortsAndSurfaces ==
    [][FailStepEndsCall]_vars /\ []FailureSurfaced

\* A rotation that failed at the reopen: Name is gone to Name.1, the handle is
\* closed, and the caller got a panic.
C12_Witness ==
    /\ Idle /\ faults = 1 /\ hist # <<>>
    /\ Last.res = "err" /\ Last.out = "panicked" /\ Last.rot = 1
    /\ ~isFileExist(files, 0)
    /\ ~File.open
    /\ ops.reopen = 1

\* C13: a zero-length Write on an open sink, after any sequence of successful
\* writes and for any Backup and CapLimit, returns 0 without error or panic
\* and performs no rotation.
C13_EmptyWriteAccepted ==
    (Idle /\ faults = 0 /\ File.open /\ hist # <<>> /\ Last.len = 0
        /\ \A k \in 1..(Len(hist) - 1) : hist[k].res = "ok")
    => /\ Last.res = "ok"
       /\ Last.out = "returned"
       /\ Last.n = 0
       /\ Last.rot = 0

\* C14: whenever the sink holds an open handle, after construction, after
\* every write and at every step in between, the handle is on the file that
\* is named Name now; and once a write that rotated has returned, Name.1 is
\* the file as it was renamed: the bytes written after the rename are in the
\* new file Name, which is another file.
C14_HandleOnName ==
    /\ File.open => (isFileExist(files, 0) /\ File.id = files[0].id)
    /\ (Idle /\ hist # <<>> /\ Last.res = "ok" /\ Last.rot >= 1)
       => /\ files[1] = rotated[Len(rotated)]
          /\ files[0].id # files[1].id
          /\ files[0].data = Drop(b, capSpace)

C14_Witness ==
    /\ Idle /\ File.open /\ hist # <<>>
    /\ Last.res = "ok" /\ Last.rot = 1
    /\ File.id = files[0].id
    /\ Len(files[0].data) = 2
    /\ Len(files[1].data) = 2
    /\ Len(rotated) = 2

\* As long as no Write has been called (New has returned a sink or an error,
\* Close may have been called), every backup is as it was before construction,
\* Name holds what it held, a Name that existed is the same file, a sink that
\* was returned has a file Name, and nothing was closed, removed, renamed or
\* reopened by a rotation.
ConstructionKeepsFiles ==
    (pc \in {"idle", "dead"} /\ hist = <<>>)
    => /\ BackupsUntouched
       /\ files[0].data = files0[0].data
       /\ isFileExist(files0, 0) => files[0] = files0[0]
       /\ pc = "idle" => (isFileExist(files, 0) /\ CapUsing = S0)
       /\ NoOps /\ rotated = <<>> /\ removed = <<>>

\* The step is a call of Close: the handle of an idle sink is released.
CloseStep == pc = "idle" /\ File.open /\ ~File'.open

\* Close changes nothing but the handle.
CloseKeepsAll ==
    CloseStep
    => /\ files' = files
       /\ CapUsing' = CapUsing
       /\ UpdateAt' = UpdateAt
       /\ File'.id = File.id
       /\ ops' = ops /\ rotated' = rotated /\ removed' = removed
       /\ pc' = "idle"

\* C15: construction and Close never rotate: New creates Name if it is absent
\* and leaves the content of a Name that exists and of every backup as it was;
\* Close only releases the handle, leaving every name, every content and
\* CapUsing unchanged.
C15_NewAndCloseKeepFiles ==
    []ConstructionKeepsFiles /\ [][CloseKeepsAll]_vars

\* A sink opened on a file of 2 bytes beside two backups, then closed.
C15_Witness ==
    /\ Idle /\ hist = <<>> /\ ~File.open
    /\ S0 = 2 /\ Backups(files0) = {1, 3}
    /\ files = files0
    /\ CapUsing = 2

\* C16: UpdateAt is the time of the most recent successful write: a Write call
\* that fails leaves UpdateAt as it was when the call began, and a successful
\* one sets it to a time not earlier than that.
C16_UpdateAtLastSuccess ==
    (Idle /\ hist # <<>>)
    => /\ Last.res = "ok" => UpdateAt >= Last.upd
       /\ Last.res \in {"err", "oob"} => UpdateAt = Last.upd

\* C17: in every state reached by construction and writes, a write that takes
\* the split branch has 0 <= capSpace <= len(b), so b[:capSpace] and
\* b[capSpace:] are in range and no call panics on a slice.
C17_SliceInRange ==
    /\ \A k \in 1..Len(hist) : hist[k].res # "oob"
    /\ (pc \notin {"new", "dead"} /\ hist # <<>> /\ ~Fits(capSpace, Len(b)))
       => SliceInRange(capSpace, Len(b))

\* The contents of Name.MaxIdx, ..., Name.k, one after the other.
RECURSIVE CatChain(_, _)
CatChain(fs, k) == IF k > MaxIdx THEN <<>> ELSE CatChain(fs, k + 1) \o fs[k].data

\* The last len bytes of the submitted stream.
StreamSuffix(len) == [j \in 1..len |-> submitted - len + j]

\* C18: with Backup >= 1, Name absent or empty and no backups before
\* construction, after any sequence of successful writes the contents of the
\* backups from the highest index down to Name.1, followed by the content of
\* Name, are a contiguous suffix of the bytes submitted, in submission order.
C18_OrderPreserved ==
    (Idle /\ AllOk /\ Backup >= 1 /\ EmptyStart /\ NoBackups0)
    => CatChain(files, 0) = StreamSuffix(Len(CatChain(files, 0)))

C18_Witness ==
    /\ Idle /\ AllOk /\ EmptyStart /\ NoBackups0
    /\ Backup = 2
    /\ Len(files[2].data) = 2 /\ Len(files[1].data) = 2 /\ Len(files[0].data) >= 1
    /\ Len(EvictedBytes) >= 1
    /\ CatChain(files, 0) = StreamSuffix(Len(files[0].data) + 4)

\* The file that was Name.j when the rotation began still exists, with the
\* same bytes, under some name.
Survives(j) == \E x \in Idx : files[x] = atClose[j]

\* C19: inside a rotation (Backup >= 1) the handle is closed before anything
\* is renamed, and at every step every file that existed when the rotation
\* began, except Name.Backup, still exists intact: no rename lands on a name
\* that is in use.  When Name has been renamed, Name.1 is the file that was
\* Name, every Name.j that existed with j < Backup is now Name.(j+1), and no
\* name above Backup has changed.
C19_RotationKeepsBackups ==
    (pc \in {"shift", "slide", "reopen"} /\ Backup >= 1)
    => /\ ~File.open
       /\ \A j \in Idx : (isFileExist(atClose, j) /\ j # Backup) => Survives(j)
       /\ \A j \in (Backup + 1)..MaxIdx : files[j] = atClose[j]
       /\ pc \in {"shift", "slide"} => files[0] = atClose[0]
       /\ pc = "reopen"
          => /\ ~isFileExist(files, 0)
             /\ files[1] = atClose[0]
             /\ \A j \in 1..(Backup - 1) :
                   isFileExist(atClose, j) => files[j + 1] = atClose[j]

C19_Witness ==
    /\ pc = "reopen" /\ Backup = 2
    /\ isFileExist(atClose, 1) /\ isFileExist(atClose, 2)
    /\ files[2] = atClose[1] /\ files[1] = atClose[0]
    /\ Len(files[2].data) = 2 /\ Len(files[1].data) = 2
    /\ ~Survives(2)

\* C20: with Backup >= 1 and Name no larger than CapLimit before
\* construction, every file that has been renamed from Name to Name.1 held
\* exactly CapLimit bytes when it was renamed.
C20_RotatedFilesAreFull ==
    (Backup >= 1 /\ S0 <= CapLimit)
    => \A k \in 1..Len(rotated) : Len(rotated[k].data) = CapLimit

C20_Witness ==
    /\ Idle /\ AllOk /\ Backup >= 1
    /\ CapLimit = 2 /\ S0 = 1
    /\ Len(rotated) = 2
    /\ Len(rotated[1].data) = 2 /\ Len(rotated[2].data) = 2

====
